---- MODULE Spec2Model ----
(***************************************************************************)
(* SpellingBeeGame (src/src/spellingbee.rs): a game session built by `new` *)
(* from two letter inputs and two word lists, and mutated only by `play`.  *)
(*                                                                         *)
(* A char is a string naming it; a word (a Rust &str / String) is the      *)
(* sequence of its chars.  `str::len` counts UTF-8 bytes, so the model     *)
(* keeps each char's encoded width: "U00E9" (e-acute) is two bytes wide,   *)
(* the ASCII letters are one.                                              *)
(***************************************************************************)
EXTENDS Integers, Sequences, FiniteSets, TLC

VARIABLES
    optional_letters,   \* BTreeSet<char>
    required_letter,    \* char
    score,              \* usize
    played_so_far,      \* BTreeSet<String>
    words,              \* BTreeSet<String>
    word,               \* argument of the last play call (<<>> before any)
    result,             \* PlayResult returned by the last play call, or "None"
    returned_valid,     \* history: the words play has returned Valid for
    arg_optional_letters,   \* history: the optional_letters argument of new
    max_score_at_new,   \* history: what max_score() returned right after new
    step,               \* number of calls made of a scripted sequence of plays
    twin                \* a second session played in step with the first, and
                        \* the result of its last play ("none" when there is none)

vars == <<optional_letters, required_letter, score, played_so_far, words,
          word, result, returned_valid, arg_optional_letters,
          max_score_at_new, step, twin>>

\* pub const MIN_LENGTH: usize = 4;
MIN_LENGTH == 4
\* pub const PANGRAM_BONUS: usize = 7;
PANGRAM_BONUS == 7

\* Largest str::len of a word handed to play.
MaxLen == 5

\* The chars words are made of: two ASCII letters and one two-byte char.
Alphabet == {"i", "l", "U00E9"}

\* char::len_utf8
len_utf8(c) == IF c = "U00E9" THEN 2 ELSE 1

\* str::len: the number of bytes of the UTF-8 encoding.
RECURSIVE len(_)
len(w) == IF w = <<>> THEN 0 ELSE len_utf8(Head(w)) + len(Tail(w))

\* str::chars, collected: the set of chars of a string.
chars(w) == {w[k] : k \in 1..Len(w)}

\* str::contains(char)
contains(w, c) == c \in chars(w)

\* PlayResult
PlayResult == {"Valid", "AlreadyPlayed", "InvalidWord", "InvalidLength",
               "InvalidLetters"}

\* Every &str play may be called with, up to MaxLen bytes.
PlayWords ==
    {w \in UNION {[1..n -> Alphabet] : n \in 0..MaxLen} : len(w) <= MaxLen}

-----------------------------------------------------------------------------
(* Construction inputs *)

w_iiii  == <<"i", "i", "i", "i">>
w_lili  == <<"l", "i", "l", "i">>
w_iiiii == <<"i", "i", "i", "i", "i">>
w_llll  == <<"l", "l", "l", "l">>
w_ili   == <<"i", "l", "i">>
w_lie   == <<"l", "i", "U00E9">>

\* optional_letters: &str
OptionalInputs == {<<>>, <<"l">>, <<"l", "i">>, <<"l", "U00E9">>}
\* required_letter: char
RequiredInputs == {"i"}
\* main_words: &str, as the list of its words
MainInputs == {<<>>, <<w_iiii, w_lili, w_iiiii, w_llll, w_ili, w_lie, w_lili>>}
\* swears: &str, as the list of its words
SwearInputs == {<<>>, <<w_lili>>}

-----------------------------------------------------------------------------
(* lexi: the lexicon built and filtered by `new` *)

\* wordlist::parse_strings(main_words, swears): the main words that are no
\* swear word, as a set.
parse_strings(main_words, swears) ==
    {main_words[k] : k \in 1..Len(main_words)}
        \ {swears[k] : k \in 1..Len(swears)}

\* Lexicon::only_using_letters
only_using_letters(lex, letters) == {w \in lex : chars(w) \subseteq letters}

\* Lexicon::with_letter
with_letter(lex, c) == {w \in lex : contains(w, c)}

\* Lexicon::with_more_length
with_more_length(lex, n) == {w \in lex : len(w) > n}

\* new without the lex.with_letter(required_letter) call.
new_no_with_letter(optional, required, main_words, swears) ==
    LET lex == parse_strings(main_words, swears)
        allowed_letters == <<required>> \o optional
        lex1 == only_using_letters(lex, chars(allowed_letters))
        lex3 == with_more_length(lex1, MIN_LENGTH - 1)
    IN  /\ optional_letters = chars(optional)
        /\ required_letter = required
        /\ score = 0
        /\ played_so_far = {}
        /\ words = lex3

\* new whose length filter is one too low.
new_short(optional, required, main_words, swears) ==
    LET lex == parse_strings(main_words, swears)
        allowed_letters == <<required>> \o optional
        lex1 == only_using_letters(lex, chars(allowed_letters))
        lex2 == with_letter(lex1, required)
        lex3 == with_more_length(lex2, MIN_LENGTH - 2)
    IN  /\ optional_letters = chars(optional)
        /\ required_letter = required
        /\ score = 0
        /\ played_so_far = {}
        /\ words = lex3

\* new that stores the allowed letters as the optional ones.
new_stores_allowed(optional, required, main_words, swears) ==
    LET lex == parse_strings(main_words, swears)
        allowed_letters == <<required>> \o optional
        lex1 == only_using_letters(lex, chars(allowed_letters))
        lex2 == with_letter(lex1, required)
        lex3 == with_more_length(lex2, MIN_LENGTH - 1)
    IN  /\ optional_letters = chars(allowed_letters)
        /\ required_letter = required
        /\ score = 0
        /\ played_so_far = {}
        /\ words = lex3

\* SpellingBeeGame::new
new(optional, required, main_words, swears) ==
    LET lex == parse_strings(main_words, swears)
        allowed_letters == <<required>> \o optional
        lex1 == only_using_letters(lex, chars(allowed_letters))
        lex2 == with_letter(lex1, required)
        lex3 == with_more_length(lex2, MIN_LENGTH - 1)
    IN  /\ optional_letters = chars(optional)
        /\ required_letter = required
        /\ score = 0
        /\ played_so_far = {}
        /\ words = lex3

-----------------------------------------------------------------------------
(* Methods *)

\* SpellingBeeGame::is_valid_partial_input
is_valid_partial_input(w) ==
    \A k \in 1..Len(w) : w[k] \in optional_letters \/ w[k] = required_letter

\* has_valid_letters without its required-letter test.
has_valid_letters_any(w) ==
    \A k \in 1..Len(w) : w[k] \in optional_letters \/ w[k] = required_letter

\* SpellingBeeGame::has_valid_letters
has_valid_letters(w) ==
    /\ contains(w, required_letter)
    /\ \A k \in 1..Len(w) : w[k] \in optional_letters \/ w[k] = required_letter

\* is_valid_word that accepts every word.
is_valid_word_any(w) == TRUE

\* SpellingBeeGame::is_valid_word
is_valid_word(w) == w \in words

\* is_pangram without the Answer Set test.
is_pangram_no_dict(w) ==
    /\ contains(w, required_letter)
    /\ \A c \in optional_letters : contains(w, c)

\* is_pangram that asks for any optional letter instead of all.
is_pangram_any(w) ==
    /\ is_valid_word(w)
    /\ contains(w, required_letter)
    /\ \E c \in optional_letters : contains(w, c)

\* is_pangram that counts the word's distinct letters: one more than there
\* are optional letters.
is_pangram_count(w) ==
    /\ is_valid_word(w)
    /\ Cardinality(chars(w)) = Cardinality(optional_letters) + 1

\* SpellingBeeGame::is_pangram
is_pangram(w) ==
    /\ is_valid_word(w)
    /\ contains(w, required_letter)
    /\ \A c \in optional_letters : contains(w, c)

\* score_word whose first test reads <= : a word of MIN_LENGTH has base 0.
score_word_le(w) ==
    LET base == IF len(w) <= MIN_LENGTH THEN 0 ELSE len(w)
    IN  IF is_pangram(w) THEN base + PANGRAM_BONUS ELSE base

\* score_word whose pangram branch drops the base.
score_word_bonus_only(w) ==
    LET base == IF len(w) < MIN_LENGTH THEN 0
                ELSE IF len(w) = MIN_LENGTH THEN 1
                ELSE len(w)
    IN  IF is_pangram(w) THEN PANGRAM_BONUS ELSE base

\* SpellingBeeGame::score_word
score_word(w) ==
    LET base == IF len(w) < MIN_LENGTH THEN 0
                ELSE IF len(w) = MIN_LENGTH THEN 1
                ELSE len(w)
    IN  IF is_pangram(w) THEN base + PANGRAM_BONUS ELSE base

\* The sum of the words' lengths instead of their scores.
RECURSIVE sum_lens(_)
sum_lens(S) ==
    IF S = {} THEN 0
    ELSE LET w == CHOOSE x \in S : TRUE
         IN  len(w) + sum_lens(S \ {w})

\* Iterator::sum over a set of words
RECURSIVE sum_scores(_)
sum_scores(S) ==
    IF S = {} THEN 0
    ELSE LET w == CHOOSE x \in S : TRUE
         IN  score_word(w) + sum_scores(S \ {w})

\* max_score that sums over the words not yet played.
max_score_unplayed == sum_scores(words \ played_so_far)

\* SpellingBeeGame::max_score
max_score == sum_scores(words)

\* play with the letters test ahead of the length test.
play_letters_first(w) ==
    /\ word' = w
    /\ IF ~has_valid_letters(w) THEN
           /\ result' = "InvalidLetters"
           /\ UNCHANGED <<played_so_far, score>>
       ELSE IF len(w) < MIN_LENGTH THEN
           /\ result' = "InvalidLength"
           /\ UNCHANGED <<played_so_far, score>>
       ELSE IF ~is_valid_word(w) THEN
           /\ result' = "InvalidWord"
           /\ UNCHANGED <<played_so_far, score>>
       ELSE IF w \in played_so_far THEN
           /\ result' = "AlreadyPlayed"
           /\ UNCHANGED <<played_so_far, score>>
       ELSE
           /\ played_so_far' = played_so_far \cup {w}
           /\ score' = score + score_word(w)
           /\ result' = "Valid"
    /\ UNCHANGED <<optional_letters, required_letter, words>>

\* play whose length test is off by one (MIN_LENGTH - 1, as in `new`).
play_short_ok(w) ==
    /\ word' = w
    /\ IF len(w) < MIN_LENGTH - 1 THEN
           /\ result' = "InvalidLength"
           /\ UNCHANGED <<played_so_far, score>>
       ELSE IF ~has_valid_letters(w) THEN
           /\ result' = "InvalidLetters"
           /\ UNCHANGED <<played_so_far, score>>
       ELSE IF ~is_valid_word(w) THEN
           /\ result' = "InvalidWord"
           /\ UNCHANGED <<played_so_far, score>>
       ELSE IF w \in played_so_far THEN
           /\ result' = "AlreadyPlayed"
           /\ UNCHANGED <<played_so_far, score>>
       ELSE
           /\ played_so_far' = played_so_far \cup {w}
           /\ score' = score + score_word(w)
           /\ result' = "Valid"
    /\ UNCHANGED <<optional_letters, required_letter, words>>

\* play that assigns the word's score instead of adding it.
play_assign(w) ==
    /\ word' = w
    /\ IF len(w) < MIN_LENGTH THEN
           /\ result' = "InvalidLength"
           /\ UNCHANGED <<played_so_far, score>>
       ELSE IF ~has_valid_letters(w) THEN
           /\ result' = "InvalidLetters"
           /\ UNCHANGED <<played_so_far, score>>
       ELSE IF ~is_valid_word(w) THEN
           /\ result' = "InvalidWord"
           /\ UNCHANGED <<played_so_far, score>>
       ELSE IF w \in played_so_far THEN
           /\ result' = "AlreadyPlayed"
           /\ UNCHANGED <<played_so_far, score>>
       ELSE
           /\ played_so_far' = played_so_far \cup {w}
           /\ score' = score_word(w)
           /\ result' = "Valid"
    /\ UNCHANGED <<optional_letters, required_letter, words>>

\* play that scores the word before it looks for a duplicate.
play_rescore(w) ==
    /\ word' = w
    /\ IF len(w) < MIN_LENGTH THEN
           /\ result' = "InvalidLength"
           /\ UNCHANGED <<played_so_far, score>>
       ELSE IF ~has_valid_letters(w) THEN
           /\ result' = "InvalidLetters"
           /\ UNCHANGED <<played_so_far, score>>
       ELSE IF ~is_valid_word(w) THEN
           /\ result' = "InvalidWord"
           /\ UNCHANGED <<played_so_far, score>>
       ELSE IF w \in played_so_far THEN
           /\ result' = "AlreadyPlayed"
           /\ score' = score + score_word(w)
           /\ UNCHANGED played_so_far
       ELSE
           /\ played_so_far' = played_so_far \cup {w}
           /\ score' = score + score_word(w)
           /\ result' = "Valid"
    /\ UNCHANGED <<optional_letters, required_letter, words>>

\* play without the duplicate test.
play_nodup(w) ==
    /\ word' = w
    /\ IF len(w) < MIN_LENGTH THEN
           /\ result' = "InvalidLength"
           /\ UNCHANGED <<played_so_far, score>>
       ELSE IF ~has_valid_letters(w) THEN
           /\ result' = "InvalidLetters"
           /\ UNCHANGED <<played_so_far, score>>
       ELSE IF ~is_valid_word(w) THEN
           /\ result' = "InvalidWord"
           /\ UNCHANGED <<played_so_far, score>>
       ELSE
           /\ played_so_far' = played_so_far \cup {w}
           /\ score' = score + score_word(w)
           /\ result' = "Valid"
    /\ UNCHANGED <<optional_letters, required_letter, words>>

\* SpellingBeeGame::play
play(w) ==
    /\ word' = w
    /\ IF len(w) < MIN_LENGTH THEN
           /\ result' = "InvalidLength"
           /\ UNCHANGED <<played_so_far, score>>
       ELSE IF ~has_valid_letters(w) THEN
           /\ result' = "InvalidLetters"
           /\ UNCHANGED <<played_so_far, score>>
       ELSE IF ~is_valid_word(w) THEN
           /\ result' = "InvalidWord"
           /\ UNCHANGED <<played_so_far, score>>
       ELSE IF w \in played_so_far THEN
           /\ result' = "AlreadyPlayed"
           /\ UNCHANGED <<played_so_far, score>>
       ELSE
           /\ played_so_far' = played_so_far \cup {w}
           /\ score' = score + score_word(w)
           /\ result' = "Valid"
    /\ UNCHANGED <<optional_letters, required_letter, words>>

-----------------------------------------------------------------------------
(* Specification *)

Init ==
    /\ \E optional \in OptionalInputs, required \in RequiredInputs,
          main_words \in MainInputs, swears \in SwearInputs :
          /\ new(optional, required, main_words, swears)
          /\ arg_optional_letters = optional
    /\ max_score_at_new = max_score
    /\ word = <<>>
    /\ result = "None"
    /\ returned_valid = {}
    /\ step = 0
    /\ twin = "none"

Next ==
    \E w \in PlayWords :
        /\ play(w)
        /\ returned_valid' = IF result' = "Valid" THEN returned_valid \cup {w}
                             ELSE returned_valid
        /\ UNCHANGED <<arg_optional_letters, max_score_at_new, step, twin>>

Spec == Init /\ [][Next]_vars

-----------------------------------------------------------------------------
(* The session and the plays of tests::test_score *)

s_will    == <<"w", "i", "l", "l">>
s_cowgirl == <<"c", "o", "w", "g", "i", "r", "l">>
s_rail    == <<"r", "a", "i", "l">>
s_roll    == <<"r", "o", "l", "l">>
s_clwgi   == <<"c", "l", "w", "g", "i">>
s_oil     == <<"o", "i", "l">>
s_grill   == <<"g", "r", "i", "l", "l">>
s_girl    == <<"g", "i", "r", "l">>
s_roil    == <<"r", "o", "i", "l">>
s_coil    == <<"c", "o", "i", "l">>
s_logic   == <<"l", "o", "g", "i", "c">>

\* The words test_score plays, in order.
Script == <<s_will, s_cowgirl, s_rail, s_roll, s_clwgi, s_oil, s_cowgirl>>

\* Words the main word list may hold besides "will" and "cowgirl".
ScriptOtherWords ==
    <<s_rail, s_roll, s_oil, s_grill, s_girl, s_roil, s_coil, s_logic>>

\* main_words: "will", "cowgirl" and the words of `others`.
ScriptMain(others) ==
    LET Kept(w) == w \in others
    IN  <<s_will, s_cowgirl>> \o SelectSeq(ScriptOtherWords, Kept)

\* swears
ScriptSwears == {<<>>, <<s_grill>>}

\* SpellingBeeGame::new("clwgro", 'i', ..)
InitScript ==
    /\ \E others \in SUBSET {ScriptOtherWords[k] :
                                 k \in 1..Len(ScriptOtherWords)},
          swears \in ScriptSwears :
          /\ new(<<"c", "l", "w", "g", "r", "o">>, "i", ScriptMain(others),
                 swears)
          /\ arg_optional_letters = <<"c", "l", "w", "g", "r", "o">>
    /\ max_score_at_new = max_score
    /\ word = <<>>
    /\ result = "None"
    /\ returned_valid = {}
    /\ step = 0
    /\ twin = "none"

\* The next play of the script.
NextScript ==
    /\ step < Len(Script)
    /\ play(Script[step + 1])
    /\ step' = step + 1
    /\ returned_valid' = IF result' = "Valid"
                         THEN returned_valid \cup {Script[step + 1]}
                         ELSE returned_valid
    /\ UNCHANGED <<arg_optional_letters, max_score_at_new, twin>>

SpecScript == InitScript /\ [][NextScript]_vars

-----------------------------------------------------------------------------
(* Two sessions side by side.  The methods again, over a session value g (a
   record of the struct's fields) instead of the session held in the
   variables. *)

\* SpellingBeeGame::new, returning the struct
game_new(optional, required, main_words, swears) ==
    LET lex == parse_strings(main_words, swears)
        allowed_letters == <<required>> \o optional
        lex1 == only_using_letters(lex, chars(allowed_letters))
        lex2 == with_letter(lex1, required)
        lex3 == with_more_length(lex2, MIN_LENGTH - 1)
    IN  [optional_letters |-> chars(optional),
         required_letter |-> required,
         score |-> 0,
         played_so_far |-> {},
         words |-> lex3]

\* SpellingBeeGame::is_valid_partial_input
game_is_valid_partial_input(g, w) ==
    \A k \in 1..Len(w) :
        w[k] \in g.optional_letters \/ w[k] = g.required_letter

\* SpellingBeeGame::has_valid_letters
game_has_valid_letters(g, w) ==
    /\ contains(w, g.required_letter)
    /\ \A k \in 1..Len(w) :
           w[k] \in g.optional_letters \/ w[k] = g.required_letter

\* SpellingBeeGame::is_valid_word
game_is_valid_word(g, w) == w \in g.words

\* SpellingBeeGame::is_pangram
game_is_pangram(g, w) ==
    /\ game_is_valid_word(g, w)
    /\ contains(w, g.required_letter)
    /\ \A c \in g.optional_letters : contains(w, c)

\* SpellingBeeGame::score_word
game_score_word(g, w) ==
    LET base == IF len(w) < MIN_LENGTH THEN 0
                ELSE IF len(w) = MIN_LENGTH THEN 1
                ELSE len(w)
    IN  IF game_is_pangram(g, w) THEN base + PANGRAM_BONUS ELSE base

\* Iterator::sum over a set of words
RECURSIVE game_sum_scores(_, _)
game_sum_scores(g, S) ==
    IF S = {} THEN 0
    ELSE LET w == CHOOSE x \in S : TRUE
         IN  game_score_word(g, w) + game_sum_scores(g, S \ {w})

\* SpellingBeeGame::max_score
game_max_score(g) == game_sum_scores(g, g.words)

\* SpellingBeeGame::play: the session after the call, and the PlayResult
game_play(g, w) ==
    IF len(w) < MIN_LENGTH THEN
        [game |-> g, result |-> "InvalidLength"]
    ELSE IF ~game_has_valid_letters(g, w) THEN
        [game |-> g, result |-> "InvalidLetters"]
    ELSE IF ~game_is_valid_word(g, w) THEN
        [game |-> g, result |-> "InvalidWord"]
    ELSE IF w \in g.played_so_far THEN
        [game |-> g, result |-> "AlreadyPlayed"]
    ELSE
        [game |-> [g EXCEPT !.played_so_far = @ \cup {w},
                            !.score = @ + game_score_word(g, w)],
         result |-> "Valid"]

\* optional_letters arguments that list the required letter "i"
TwinOptionalInputs ==
    {<<"l", "i">>, <<"i">>, <<"i", "l", "i">>, <<"l", "U00E9", "i">>}

\* The string s with every c removed.
without(s, c) ==
    LET Other(x) == x # c
    IN  SelectSeq(s, Other)

\* new for both sessions: the first as given, the twin with the required
\* letter removed from optional_letters, from the same word lists.
InitTwin ==
    /\ \E optional \in TwinOptionalInputs, required \in RequiredInputs,
          main_words \in MainInputs, swears \in SwearInputs :
          /\ new(optional, required, main_words, swears)
          /\ arg_optional_letters = optional
          /\ twin = [game |-> game_new(without(optional, required), required,
                                       main_words, swears),
                     result |-> "None"]
    /\ max_score_at_new = max_score
    /\ word = <<>>
    /\ result = "None"
    /\ returned_valid = {}
    /\ step = 0

\* The same play on both sessions.
NextTwin ==
    \E w \in PlayWords :
        /\ play(w)
        /\ twin' = game_play(twin.game, w)
        /\ returned_valid' = IF result' = "Valid" THEN returned_valid \cup {w}
                             ELSE returned_valid
        /\ UNCHANGED <<arg_optional_letters, max_score_at_new, step>>

SpecTwin == InitTwin /\ [][NextTwin]_vars

-----------------------------------------------------------------------------
(* Properties *)

\* The letters a word may use: the required letter and the optional ones.
Allowed == {required_letter} \cup optional_letters

Rejects == {"InvalidLength", "InvalidLetters", "InvalidWord", "AlreadyPlayed"}

\* C1: every play(w) returns the result of the first matching check in the
\* order length, letters, dictionary, duplicate, accept.
C1_FirstMatchWins ==
    [][result' =
         IF len(word') < 4 THEN "InvalidLength"
         ELSE IF \/ \E k \in 1..Len(word') : word'[k] \notin Allowed
                 \/ required_letter \notin chars(word')
              THEN "InvalidLetters"
         ELSE IF word' \notin words THEN "InvalidWord"
         ELSE IF word' \in played_so_far THEN "AlreadyPlayed"
         ELSE "Valid"]_vars

\* A too-short word that also uses a disallowed letter was reported
\* InvalidLength.
C1_Witness ==
    /\ result = "InvalidLength"
    /\ \E k \in 1..Len(word) : word[k] \notin Allowed

\* C2: in every reachable state max_score() >= score().
C2_MaxScoreBoundsScore == max_score >= score

\* Every word of a non-empty Answer Set has been played: the bound is met.
C2_Witness ==
    /\ result = "Valid"
    /\ Cardinality(played_so_far) >= 2
    /\ score = max_score

\* C3: score() is 0 and the Played Set empty at construction, and no play
\* call lowers the score.
C3_ScoreNonDecreasing ==
    /\ (score = 0 /\ played_so_far = {})
    /\ [][score' >= score]_vars

\* A rejected play after the score has grown.
C3_Witness == score > 0 /\ result = "InvalidWord"

\* C4: a play that returns one of the four rejections leaves the Played Set,
\* the score, the letters and the Answer Set as they were.
C4_RejectsChangeNothing ==
    [][result' \in Rejects =>
         UNCHANGED <<played_so_far, score, optional_letters, required_letter,
                     words>>]_vars

\* A duplicate was rejected in a session that has a score to lose.
C4_Witness == result = "AlreadyPlayed" /\ score > 0

\* C5: a play that returns Valid adds exactly w to the Played Set and exactly
\* score_word(w), at least 1, to the score, and changes nothing else.
C5_ValidEffect ==
    [][result' = "Valid" =>
         /\ word' \notin played_so_far
         /\ played_so_far' = played_so_far \cup {word'}
         /\ score' = score + score_word(word')
         /\ score' >= score + 1
         /\ UNCHANGED <<optional_letters, required_letter, words>>]_vars

\* A second word was accepted.
C5_Witness ==
    /\ result = "Valid"
    /\ word \in played_so_far
    /\ Cardinality(played_so_far) >= 2

\* C6: once play(w) has returned Valid, every later play(w) returns
\* AlreadyPlayed and leaves the score unchanged.
C6_ValidOnlyOnce ==
    [][word' \in returned_valid =>
         result' = "AlreadyPlayed" /\ score' = score]_vars

\* A word accepted earlier was played again after another word was accepted.
C6_Witness ==
    /\ result = "AlreadyPlayed"
    /\ word \in returned_valid
    /\ Cardinality(returned_valid) >= 2

\* C7: every word shorter than 4 is rejected with InvalidLength, whatever its
\* letters and whatever was played before.
C7_ShortIsInvalidLength ==
    (result # "None" /\ len(word) < 4) => result = "InvalidLength"

\* A short word made of allowed letters, with the required one, was rejected
\* after other words had been accepted.
C7_Witness ==
    /\ result = "InvalidLength"
    /\ word # <<>>
    /\ chars(word) \subseteq Allowed
    /\ required_letter \in chars(word)
    /\ score > 0

\* C8: every word of length >= 4 that uses a letter outside the allowed set,
\* or omits the required letter, is rejected with InvalidLetters.
C8_BadLettersIsInvalidLetters ==
    (/\ result # "None"
     /\ len(word) >= 4
     /\ \/ ~(chars(word) \subseteq Allowed)
        \/ required_letter \notin chars(word))
    => result = "InvalidLetters"

\* A word of allowed letters only, without the required one, was rejected.
C8_Witness ==
    /\ result = "InvalidLetters"
    /\ chars(word) \subseteq Allowed
    /\ required_letter \notin chars(word)

\* C9: the Played Set is always a subset of the Answer Set, and it only
\* grows.
C9_PlayedWithinAnswersAndGrows ==
    /\ [](played_so_far \subseteq words)
    /\ [][played_so_far \subseteq played_so_far']_vars

\* A play was rejected while the Played Set held two words.
C9_Witness ==
    /\ Cardinality(played_so_far) >= 2
    /\ result \in Rejects

\* C10: the score added for an accepted word is 1 for length 4 and the length
\* above 4, plus 7 exactly when the word contains every optional letter; it
\* is a function of the word and the letters alone.
C10_ScoreFormula ==
    [][result' = "Valid" =>
         score' - score =
             (IF len(word') < 4 THEN 0
              ELSE IF len(word') = 4 THEN 1
              ELSE len(word'))
             + (IF \A c \in optional_letters : c \in chars(word') THEN 7
                ELSE 0)]_vars

\* A word holding every optional letter was accepted after another word.
C10_Witness ==
    /\ result = "Valid"
    /\ optional_letters # {}
    /\ optional_letters \subseteq chars(word)
    /\ score > 8

\* C12: every word of the Answer Set has length >= 4, uses only the required
\* and the optional letters, and holds the required letter; so does every
\* word play has returned Valid for.
C12_AnswerSetWellFormed ==
    \A w \in words \cup returned_valid :
        /\ len(w) >= 4
        /\ \A k \in 1..Len(w) : w[k] \in Allowed
        /\ \E k \in 1..Len(w) : w[k] = required_letter

\* A word was accepted from an Answer Set that the filters had cut down from
\* the main words.
C12_Witness ==
    /\ result = "Valid"
    /\ word \in returned_valid
    /\ Cardinality(words) >= 2

\* C13: is_pangram(w) is true exactly when w is in the Answer Set, holds the
\* required letter and holds every optional letter, in every state of the
\* session.
C13_IsPangramIff ==
    \A w \in PlayWords :
        is_pangram(w) <=> (/\ w \in words
                           /\ required_letter \in chars(w)
                           /\ optional_letters \subseteq chars(w))

\* After a play, the Answer Set holds a pangram and a word that is none, and
\* a word with every letter that is in no Answer Set exists.
C13_Witness ==
    /\ played_so_far # {}
    /\ optional_letters # {}
    /\ \E w \in words : is_pangram(w)
    /\ \E w \in words : ~is_pangram(w)
    /\ \E w \in PlayWords \ words : Allowed \subseteq chars(w)

\* The highest score_word of an Answer Set word (0 for an empty Answer Set).
C14_Top ==
    LET scores == {score_word(w) : w \in words}
    IN  IF scores = {} THEN 0
        ELSE CHOOSE n \in scores : \A k \in scores : k <= n

\* The Answer Set's total, counted score by score: n times the number of
\* Answer Set words that score n, for n up to C14_Top.
RECURSIVE C14_TotalUpTo(_)
C14_TotalUpTo(n) ==
    IF n = 0 THEN 0
    ELSE n * Cardinality({w \in words : score_word(w) = n})
         + C14_TotalUpTo(n - 1)

\* C14: max_score() is the sum of score_word(w) over the Answer Set, and no
\* play call changes its value.
C14_MaxScoreIsTotalAndFixed ==
    /\ max_score = C14_TotalUpTo(C14_Top)
    /\ max_score = max_score_at_new

\* Two words have been accepted from an Answer Set with words left to play.
C14_Witness ==
    /\ Cardinality(played_so_far) >= 2
    /\ played_so_far # words
    /\ max_score > score

\* C15 as stated: with an empty Answer Set max_score() is 0 and every play
\* call is rejected with InvalidWord, the score staying 0.
C15_Original ==
    words = {} =>
        /\ max_score = 0
        /\ score = 0
        /\ result # "None" => result = "InvalidWord"

\* C15, amended: with an empty Answer Set max_score() is 0, no play call
\* returns Valid or AlreadyPlayed, the score stays 0, and InvalidWord is the
\* result exactly for the words that pass the length and the letters checks.
C15_EmptyAnswerSet ==
    words = {} =>
        /\ max_score = 0
        /\ score = 0
        /\ played_so_far = {}
        /\ result # "None" =>
              /\ result \in {"InvalidLength", "InvalidLetters", "InvalidWord"}
              /\ result = "InvalidWord" <=>
                    /\ len(word) >= 4
                    /\ chars(word) \subseteq Allowed
                    /\ required_letter \in chars(word)

\* A word of valid length and letters was rejected by an empty Answer Set.
C15_Witness ==
    /\ words = {}
    /\ result = "InvalidWord"

\* C16 as stated: in every session the required letter is not in the stored
\* optional-letter set.
C16_Original == required_letter \notin optional_letters

\* C16, amended: the stored optional-letter set is the set of chars of the
\* optional_letters argument, so it holds the required letter exactly when
\* the argument lists it.
C16_OptionalLettersAsGiven ==
    /\ optional_letters = chars(arg_optional_letters)
    /\ required_letter \in optional_letters
         <=> \E k \in 1..Len(arg_optional_letters) :
                 arg_optional_letters[k] = required_letter

\* A session whose optional_letters argument lists the required letter has
\* accepted a word.
C16_Witness ==
    /\ \E k \in 1..Len(arg_optional_letters) :
           arg_optional_letters[k] = required_letter
    /\ required_letter \in optional_letters
    /\ result = "Valid"

\* C18: score_word(w) is 0 for every word that is too short, uses a
\* disallowed letter, omits the required letter or is not in the Answer Set.
C18_ScoreWordZeroForInvalid ==
    \A w \in PlayWords :
        (\/ len(w) < 4
         \/ ~(chars(w) \subseteq Allowed)
         \/ required_letter \notin chars(w)
         \/ w \notin words)
        => score_word(w) = 0

\* C19: in every reachable state score() is the sum of score_word(w) over
\* the words of the Played Set.
C19_ScoreIsSumOfPlayed == score = sum_scores(played_so_far)

\* A play was rejected after two words, one of them a pangram, were accepted.
C19_Witness ==
    /\ Cardinality(played_so_far) >= 2
    /\ \E w \in played_so_far : is_pangram(w)
    /\ result \in Rejects

\* C20: when every Answer Set word has been played score() = max_score()
\* and no later play returns Valid; while an Answer Set word is unplayed
\* score() < max_score() and playing such a word returns Valid.
C20_PerfectScore ==
    /\ [](IF played_so_far = words THEN score = max_score
          ELSE score < max_score)
    /\ [][/\ played_so_far = words => result' # "Valid"
          /\ word' \in words \ played_so_far => result' = "Valid"]_vars

\* Every word of an Answer Set of two or more has been played, the score is
\* the maximum, and a further play was rejected.
C20_Witness ==
    /\ Cardinality(words) >= 2
    /\ played_so_far = words
    /\ score = max_score
    /\ result \in Rejects

\* C11: with optional letters "clwgro", required letter 'i' and an Answer
\* Set holding "will" and "cowgirl" but not "clwgi", the plays will, cowgirl,
\* rail, roll, clwgi, oil, cowgirl return Valid, Valid, InvalidLetters,
\* InvalidLetters, InvalidWord, InvalidLength, AlreadyPlayed and leave the
\* score at 1, 15, 15, 15, 15, 15, 15.
C11_TestScore ==
    (s_will \in words /\ s_cowgirl \in words /\ s_clwgi \notin words) =>
        /\ step = 0 => score = 0
        /\ step >= 1 =>
              /\ word = Script[step]
              /\ result = <<"Valid", "Valid", "InvalidLetters",
                            "InvalidLetters", "InvalidWord", "InvalidLength",
                            "AlreadyPlayed">>[step]
              /\ score = <<1, 15, 15, 15, 15, 15, 15>>[step]

\* The whole script has been played.
C11_Witness ==
    /\ step = 7
    /\ s_will \in words /\ s_cowgirl \in words /\ s_clwgi \notin words
    /\ result = "AlreadyPlayed"
    /\ score = 15

\* C17: a session built with the required letter also among optional_letters
\* gives, after every sequence of plays, the same play result, score(),
\* max_score(), is_pangram and is_valid_partial_input values as the session
\* built from the same word lists with that letter removed from
\* optional_letters.
C17_DuplicateIsHarmless ==
    /\ twin.result = result
    /\ twin.game.score = score
    /\ game_max_score(twin.game) = max_score
    /\ \A w \in PlayWords :
           /\ game_is_pangram(twin.game, w) <=> is_pangram(w)
           /\ game_is_valid_partial_input(twin.game, w)
                 <=> is_valid_partial_input(w)

\* The two sessions store different optional letters, and both have accepted
\* a pangram and another word.
C17_Witness ==
    /\ required_letter \in optional_letters
    /\ required_letter \notin twin.game.optional_letters
    /\ twin.game.optional_letters # {}
    /\ result = "Valid" /\ twin.result = "Valid"
    /\ is_pangram(word)
    /\ Cardinality(twin.game.played_so_far) >= 2

====
